---- MODULE Spec2Model ----
(***************************************************************************)
(* squoosh-cli: encoder resolution (lib/encoders.ts), the batch runner     *)
(* processImages (lib/process.ts) and the atomic writer (lib/fs.ts).       *)
(*                                                                         *)
(* Eight specifications share this module and its variables:               *)
(*   SpecMenu    getMenuOptions applied to every capability set            *)
(*   Spec        one call of processImages, one action per await           *)
(*   SpecFair    Spec with every enabled step taken in the end             *)
(*   SpecDetect  one call of detectSquooshSupport                          *)
(*   SpecMain    main from its arguments to its call of processImages      *)
(*   SpecAtomic  concurrent writeFileAtomic / copyFileAtomic /             *)
(*               encodeWithSharp calls on a small file system, with crash  *)
(*   SpecPaths   the output path of every job of a batch                   *)
(*   SpecQuality the quality of a job and the options of its codec         *)
(* JavaScript runs each callback to its next await without preemption, so  *)
(* an action is the code between two awaits of one async function.         *)
(***************************************************************************)
EXTENDS Integers, Sequences, FiniteSets, TLC

\* ---------------------------------------------------------------- bounds
MaxFiles == 3
MaxConcurrency == 3
MaxJobs == 6
MaxWriters == 2
ContentLen == 2
MaxBatch == 2
MaxSelected == 2
QualityMargin == 2

\* ------------------------------------------------------- encoder catalog
\* The keys of SquooshSupport.
Codecs == {"mozjpeg", "webp", "avif", "oxipng", "jxl", "wp2"}

\* The EncoderId union type.
EncoderIds ==
  {"avif", "browser-gif", "browser-jpeg", "browser-png", "jxl", "mozjpeg",
   "oxipng", "qoi", "webp", "wp2", "original"}

\* Every value of type SquooshSupport.
SquooshSupport == [Codecs -> BOOLEAN]

\* An optional field that is not set.
undefined == "undefined"

\* One EncoderOption literal; isFallback is left out here and added to the
\* one entry that sets it.
EncoderOption(id, label, ext, lossy, supportsQuality, encoderType, squooshCodec, sharpFormat) ==
  [id |-> id, label |-> label, ext |-> ext, lossy |-> lossy,
   supportsQuality |-> supportsQuality, encoderType |-> encoderType,
   squooshCodec |-> squooshCodec, sharpFormat |-> sharpFormat]

\* A catalog that offers every advanced codec without asking the capability
\* set (the support argument is ignored).
getMenuOptionsUnprobed(support) ==
  << EncoderOption("avif", "AVIF", "avif", TRUE, TRUE, "squoosh", "avif", undefined),
     EncoderOption("browser-gif", "Browser GIF", "gif", TRUE, FALSE, "unsupported", undefined, undefined),
     EncoderOption("browser-jpeg", "Browser JPEG", "jpg", TRUE, TRUE, "sharp", undefined, "jpeg"),
     EncoderOption("browser-png", "Browser PNG", "png", FALSE, FALSE, "sharp", undefined, "png"),
     EncoderOption("jxl", "JPEG XL (beta)", "jxl", TRUE, TRUE, "squoosh", "jxl", undefined),
     EncoderOption("mozjpeg", "MozJPEG", "jpg", TRUE, TRUE, "squoosh", "mozjpeg", undefined)
       @@ [isFallback |-> FALSE],
     EncoderOption("oxipng", "OxiPNG", "png", FALSE, FALSE, "squoosh", "oxipng", undefined),
     EncoderOption("qoi", "QOI", "qoi", FALSE, FALSE, "unsupported", undefined, undefined),
     EncoderOption("webp", "WebP", "webp", TRUE, TRUE, "squoosh", "webp", undefined),
     EncoderOption("wp2", "WebP v2 (unstable)", "wp2", TRUE, TRUE, "squoosh", "wp2", undefined),
     EncoderOption("original", "Original image (copy)", "original", FALSE, FALSE, "copy", undefined, undefined) >>

\* The catalog with the label of the mozjpeg fallback left open; the two
\* changed catalogs below are built from it.
MenuEntries(support, fallbackLabel) ==
  << EncoderOption("avif", "AVIF", "avif", TRUE, TRUE,
       IF support["avif"] THEN "squoosh" ELSE "sharp",
       IF support["avif"] THEN "avif" ELSE undefined,
       IF support["avif"] THEN undefined ELSE "avif"),
     EncoderOption("browser-gif", "Browser GIF", "gif", TRUE, FALSE,
       "unsupported", undefined, undefined),
     EncoderOption("browser-jpeg", "Browser JPEG", "jpg", TRUE, TRUE,
       "sharp", undefined, "jpeg"),
     EncoderOption("browser-png", "Browser PNG", "png", FALSE, FALSE,
       "sharp", undefined, "png"),
     EncoderOption("jxl", "JPEG XL (beta)", "jxl", TRUE, TRUE,
       IF support["jxl"] THEN "squoosh" ELSE "unsupported",
       IF support["jxl"] THEN "jxl" ELSE undefined,
       undefined),
     EncoderOption("mozjpeg",
       IF support["mozjpeg"] THEN "MozJPEG" ELSE fallbackLabel,
       "jpg", TRUE, TRUE,
       IF support["mozjpeg"] THEN "squoosh" ELSE "sharp",
       IF support["mozjpeg"] THEN "mozjpeg" ELSE undefined,
       IF support["mozjpeg"] THEN undefined ELSE "jpeg")
       @@ [isFallback |-> ~support["mozjpeg"]],
     EncoderOption("oxipng", "OxiPNG", "png", FALSE, FALSE,
       IF support["oxipng"] THEN "squoosh" ELSE "unsupported",
       IF support["oxipng"] THEN "oxipng" ELSE undefined,
       undefined),
     EncoderOption("qoi", "QOI", "qoi", FALSE, FALSE,
       "unsupported", undefined, undefined),
     EncoderOption("webp", "WebP", "webp", TRUE, TRUE,
       IF support["webp"] THEN "squoosh" ELSE "sharp",
       IF support["webp"] THEN "webp" ELSE undefined,
       IF support["webp"] THEN undefined ELSE "webp"),
     EncoderOption("wp2", "WebP v2 (unstable)", "wp2", TRUE, TRUE,
       IF support["wp2"] THEN "squoosh" ELSE "unsupported",
       IF support["wp2"] THEN "wp2" ELSE undefined,
       undefined),
     EncoderOption("original", "Original image (copy)", "original", FALSE, FALSE,
       "copy", undefined, undefined) >>

\* Line 180 without its conditional: the mozjpeg entry is labelled 'MozJPEG'
\* whichever strategy it resolves to.
getMenuOptionsSameLabel(support) == MenuEntries(support, "MozJPEG")

\* The catalog sorted so that the entries that can run come first: the order
\* of the menu follows the capability set.
getMenuOptionsUsableFirst(support) ==
  LET all == MenuEntries(support, "JPEG fallback (not true MozJPEG)") IN
  SelectSeq(all, LAMBDA option : option.encoderType # "unsupported")
    \o SelectSeq(all, LAMBDA option : option.encoderType = "unsupported")

\* getMenuOptions(support): the eleven entries, in menu order.
getMenuOptions(support) ==
  LET mozjpegUsesSquoosh == support["mozjpeg"] IN
  << EncoderOption("avif", "AVIF", "avif", TRUE, TRUE,
       IF support["avif"] THEN "squoosh" ELSE "sharp",
       IF support["avif"] THEN "avif" ELSE undefined,
       IF support["avif"] THEN undefined ELSE "avif"),
     EncoderOption("browser-gif", "Browser GIF", "gif", TRUE, FALSE,
       "unsupported", undefined, undefined),
     EncoderOption("browser-jpeg", "Browser JPEG", "jpg", TRUE, TRUE,
       "sharp", undefined, "jpeg"),
     EncoderOption("browser-png", "Browser PNG", "png", FALSE, FALSE,
       "sharp", undefined, "png"),
     EncoderOption("jxl", "JPEG XL (beta)", "jxl", TRUE, TRUE,
       IF support["jxl"] THEN "squoosh" ELSE "unsupported",
       IF support["jxl"] THEN "jxl" ELSE undefined,
       undefined),
     EncoderOption("mozjpeg",
       IF mozjpegUsesSquoosh THEN "MozJPEG" ELSE "JPEG fallback (not true MozJPEG)",
       "jpg", TRUE, TRUE,
       IF mozjpegUsesSquoosh THEN "squoosh" ELSE "sharp",
       IF mozjpegUsesSquoosh THEN "mozjpeg" ELSE undefined,
       IF mozjpegUsesSquoosh THEN undefined ELSE "jpeg")
       @@ [isFallback |-> ~mozjpegUsesSquoosh],
     EncoderOption("oxipng", "OxiPNG", "png", FALSE, FALSE,
       IF support["oxipng"] THEN "squoosh" ELSE "unsupported",
       IF support["oxipng"] THEN "oxipng" ELSE undefined,
       undefined),
     EncoderOption("qoi", "QOI", "qoi", FALSE, FALSE,
       "unsupported", undefined, undefined),
     EncoderOption("webp", "WebP", "webp", TRUE, TRUE,
       IF support["webp"] THEN "squoosh" ELSE "sharp",
       IF support["webp"] THEN "webp" ELSE undefined,
       IF support["webp"] THEN undefined ELSE "webp"),
     EncoderOption("wp2", "WebP v2 (unstable)", "wp2", TRUE, TRUE,
       IF support["wp2"] THEN "squoosh" ELSE "unsupported",
       IF support["wp2"] THEN "wp2" ELSE undefined,
       undefined),
     EncoderOption("original", "Original image (copy)", "original", FALSE, FALSE,
       "copy", undefined, undefined) >>

\* ------------------------------------------------------------ file paths
\* An input file: its directory below inputRoot, its base name without the
\* extension, and its extension without the dot.
InputFile(dir, name, ext) == [dir |-> dir, name |-> name, ext |-> ext]

\* The files a scan can return, in scan order. The first two differ only in
\* their extension; the third lies in a subdirectory.
ScanOrder ==
  << InputFile(<< >>, "a", "png"),
     InputFile(<< >>, "a", "jpg"),
     InputFile(<<"sub">>, "a", "png"),
     InputFile(<<"sub">>, "b", "PNG") >>

\* String.prototype.toLowerCase on the extensions in use.
toLowerCase(ext) == IF ext = "PNG" THEN "png" ELSE ext

\* getOriginalExtension(inputFile)
getOriginalExtension(inputFile) == toLowerCase(inputFile.ext)

\* buildOutputPath without relativeDir: every output lies directly under
\* outputRoot.
buildOutputPathFlat(inputFile, isDirectory, outputExt) ==
  [dir |-> << >>, fileName |-> << inputFile.name, "-squoosh.", outputExt >>]

\* buildOutputPath(params): the directory below outputRoot and the file name
\* `${baseName}-squoosh.${outputExt}`, kept as its three parts.
buildOutputPath(inputFile, isDirectory, outputExt) ==
  LET fileName == << inputFile.name, "-squoosh.", outputExt >> IN
  IF ~isDirectory
    THEN [dir |-> << >>, fileName |-> fileName]
    ELSE [dir |-> inputFile.dir, fileName |-> fileName]

\* ------------------------------------------------------------------ state
VARIABLES
  support,          \* the SquooshSupport of this run
  menu,             \* getMenuOptions(support), << >> before it is computed
  params,           \* the argument of processImages
  phase,            \* where processImages stands: "called", "import", "running", "returned"
  activeEncoders,   \* let activeEncoders
  unsupported,      \* let unsupported
  pool,             \* let pool: "null", "open" or "closed"
  task,             \* per input file: the limit(async () => ...) callback
  outputsByEncoder, \* const outputsByEncoder
  failures,         \* const failures
  completed,        \* let completed
  log,              \* the values printed by console.log(`Processed ...`)
  summary,          \* the ProcessSummary returned
  attempts,         \* history: per (file, encoder id), how often its loop body ran
  outcome,          \* history: per (file, encoder id), "-", "stored" or the failure message
  poolCloses,       \* history: calls of pool.close()
  writer,           \* per call of an atomic write: its operation and the await it is at
  disk,             \* the content of every path below outputRoot
  dirs,             \* the directories that exist below outputRoot
  crashed,          \* the process was killed
  outputPaths,      \* per input file: the outputPath of each job resolved so far
  job,              \* the quality and the codec options of the job prepared last
  detect,           \* detectSquooshSupport: the await it is at and what its probes met
  main              \* main: its arguments, the await it is at and how it ended

procVars ==
  << params, phase, activeEncoders, unsupported, pool, task, outputsByEncoder,
     failures, completed, log, summary, attempts, outcome, poolCloses >>

fsVars == << writer, disk, dirs, crashed >>

jobVars == << outputPaths, job >>

runVars == << detect, main >>

vars == << support, menu, procVars, fsVars, jobVars, runVars >>

\* ------------------------------------------------------ sequence helpers
\* Array.prototype.map
Map(f(_), seq) == [i \in 1..Len(seq) |-> f(seq[i])]

\* Array.prototype.some
Some(seq, p(_)) == \E i \in 1..Len(seq) : p(seq[i])

\* The ids of a list of encoders or of summary entries.
Ids(seq) == {seq[i].id : i \in 1..Len(seq)}

\* --------------------------------------------------------- processImages
\* The input of one run that main can hand to processImages.
SupportChoices ==
  { [c \in Codecs |-> FALSE],
    [c \in Codecs |-> c = "webp"],
    [c \in Codecs |-> TRUE] }

\* The menu entries the runs select from: one with a native fallback, one
\* without, and the raw copy.
SelectableIds == {"webp", "oxipng", "original"}

\* No ProcessSummary yet.
NoSummary == [totalInputs |-> -1]

\* The (input file, encoder) pairs of a call, files by their index.
Jobs(p) == (1..Len(p.inputFiles)) \X Ids(p.encoders)

\* A callback of limit() that has not been started.
Queued == [st |-> "queued", k |-> 0, at |-> "-", inputBuffer |-> FALSE]

\* The entry of the unsupported list for one encoder (lines 133-137, 149-153).
SkipEntry(enc) ==
  [id |-> enc.id, label |-> enc.label, skipped |-> Len(params.inputFiles)]

\* The number of callbacks p-limit has started and that have not returned.
activeCount == Cardinality({i \in DOMAIN task : task[i].st = "running"})

\* The number of encode requests the pool is working on.
poolInFlight == Cardinality({i \in DOMAIN task : task[i].at = "encode"})

ProcInit(sup) ==
  /\ \E n \in 0..MaxFiles, sel \in SUBSET SelectableIds, c \in 1..MaxConcurrency,
        dirMode \in BOOLEAN :
       /\ dirMode \/ n = 1
       /\ n * Cardinality(sel) <= MaxJobs
       /\ params =
            [inputFiles |-> SubSeq(ScanOrder, 1, n),
             isDirectory |-> dirMode,
             encoders |-> SelectSeq(getMenuOptions(sup), LAMBDA option : option.id \in sel),
             quality |-> [default |-> 75, overrides |-> << >>],
             concurrency |-> c]
       /\ task = [i \in 1..n |-> Queued]
  /\ phase = "called"
  /\ activeEncoders = << >>
  /\ unsupported = << >>
  /\ pool = "null"
  /\ outputsByEncoder = [id \in EncoderIds |-> 0]
  /\ failures = << >>
  /\ completed = 0
  /\ log = << >>
  /\ summary = NoSummary
  /\ attempts = [j \in Jobs(params) |-> 0]
  /\ outcome = [j \in Jobs(params) |-> "-"]
  /\ poolCloses = 0

\* No atomic write is under way: outputRoot exists and is empty.
FsIdle ==
  /\ writer = << >>
  /\ disk = << >>
  /\ dirs = {<< >>}
  /\ crashed = FALSE

\* processImages has not been called.
ProcIdle ==
  /\ params = [inputFiles |-> << >>, isDirectory |-> TRUE, encoders |-> << >>,
               quality |-> [default |-> 75, overrides |-> << >>], concurrency |-> 1]
  /\ task = << >>
  /\ phase = "idle"
  /\ activeEncoders = << >>
  /\ unsupported = << >>
  /\ pool = "null"
  /\ outputsByEncoder = [id \in EncoderIds |-> 0]
  /\ failures = << >>
  /\ completed = 0
  /\ log = << >>
  /\ summary = NoSummary
  /\ attempts = << >>
  /\ outcome = << >>
  /\ poolCloses = 0

\* No job has resolved its output path or prepared its codec options.
NoJob == [id |-> "-"]
JobIdle ==
  /\ outputPaths = << >>
  /\ job = NoJob

\* Neither detectSquooshSupport nor main is modelled in this run.
NotRun == [at |-> "-"]
RunIdle ==
  /\ detect = NotRun
  /\ main = NotRun

Init ==
  /\ support \in SupportChoices
  /\ menu = getMenuOptions(support)
  /\ ProcInit(support)
  /\ FsIdle
  /\ JobIdle
  /\ RunIdle

\* Line 130 without its filter: every selected encoder stays active.
BeginKeepsUnsupported ==
  /\ phase = "called"
  /\ activeEncoders' = params.encoders
  /\ unsupported' =
       LET skip == SelectSeq(params.encoders, LAMBDA enc : enc.encoderType = "unsupported")
       IN [x \in 1..Len(skip) |->
             [id |-> skip[x].id, label |-> skip[x].label,
              skipped |-> Len(params.inputFiles)]]
  /\ phase' = IF \E x \in 1..Len(params.encoders) : params.encoders[x].encoderType = "squoosh"
                THEN "import" ELSE "running"
  /\ UNCHANGED << support, menu, params, pool, task, outputsByEncoder, failures,
                  completed, log, summary, attempts, outcome, poolCloses, fsVars, jobVars, runVars >>

\* Lines 112-141: the code of processImages up to its first await.
Begin ==
  /\ phase = "called"
  /\ LET active == SelectSeq(params.encoders, LAMBDA enc : enc.encoderType # "unsupported")
         needsSquoosh == Some(active, LAMBDA enc : enc.encoderType = "squoosh")
     IN /\ activeEncoders' = active
        /\ unsupported' =
             Map(SkipEntry,
                 SelectSeq(params.encoders, LAMBDA enc : enc.encoderType = "unsupported"))
        /\ phase' = IF needsSquoosh THEN "import" ELSE "running"
  /\ UNCHANGED << support, menu, params, pool, task, outputsByEncoder, failures,
                  completed, log, summary, attempts, outcome, poolCloses, fsVars, jobVars, runVars >>

\* Lines 143-144: the import resolves and the ImagePool is constructed.
ConstructPool ==
  /\ phase = "import"
  /\ pool' = "open"
  /\ phase' = "running"
  /\ UNCHANGED << support, menu, params, activeEncoders, unsupported, task,
                  outputsByEncoder, failures, completed, log, summary, attempts,
                  outcome, poolCloses, fsVars, jobVars, runVars >>

\* The catch block without line 147: the squoosh encoders are listed as
\* unsupported and stay active.
ConstructPoolFailsKeepsJobs ==
  /\ phase = "import"
  /\ unsupported' =
       unsupported \o
         [x \in 1..Len(SelectSeq(activeEncoders, LAMBDA enc : enc.encoderType = "squoosh")) |->
            [id |-> SelectSeq(activeEncoders, LAMBDA enc : enc.encoderType = "squoosh")[x].id,
             label |-> SelectSeq(activeEncoders, LAMBDA enc : enc.encoderType = "squoosh")[x].label,
             skipped |-> Len(params.inputFiles)]]
  /\ phase' = "running"
  /\ UNCHANGED << support, menu, params, activeEncoders, pool, task, outputsByEncoder,
                  failures, completed, log, summary, attempts, outcome, poolCloses, fsVars, jobVars, runVars >>

\* Lines 145-155: the import or the constructor throws.
ConstructPoolFails ==
  /\ phase = "import"
  /\ LET squooshEncoders ==
           SelectSeq(activeEncoders, LAMBDA enc : enc.encoderType = "squoosh")
     IN /\ activeEncoders' =
             SelectSeq(activeEncoders, LAMBDA enc : enc.encoderType # "squoosh")
        /\ unsupported' = unsupported \o Map(SkipEntry, squooshEncoders)
  /\ phase' = "running"
  /\ UNCHANGED << support, menu, params, pool, task, outputsByEncoder, failures,
                  completed, log, summary, attempts, outcome, poolCloses, fsVars, jobVars, runVars >>

\* Line 197: the entry pushed to failures; the reason `${label}: ${message}`
\* is kept as its two parts.
Failure(i, encoder, message) ==
  [file |-> params.inputFiles[i], reason |-> << encoder.label, message >>]

\* The shared accumulators as a callback has written them so far in a step:
\* failures, outputsByEncoder and the two histories.
Acc(fl, obe, att, out) ==
  [failures |-> fl, outputsByEncoder |-> obe, attempts |-> att, outcome |-> out]

\* Lines 195-198: the catch block of job (i, encoder at k) with this message.
Caught(i, k, message, acc) ==
  [acc EXCEPT !.failures = Append(@, Failure(i, activeEncoders[k], message)),
              !.outcome[<< i, activeEncoders[k].id >>] = message]

\* Line 194 as a read before and a write after an await: the increment is
\* lost when another callback is in flight.
CountedRacy(i, k, acc) ==
  [acc EXCEPT !.outputsByEncoder[activeEncoders[k].id] =
                 IF Cardinality({j \in DOMAIN task : task[j].st = "running"}) > 1
                   THEN @ ELSE @ + 1,
              !.outcome[<< i, activeEncoders[k].id >>] = "stored"]

\* Line 194 after the output of job (i, encoder at k) was renamed into place.
Counted(i, k, acc) ==
  [acc EXCEPT !.outputsByEncoder[activeEncoders[k].id] = @ + 1,
              !.outcome[<< i, activeEncoders[k].id >>] = "stored"]

\* A callback suspended at await `a` of its job k, or returned.
Running(k, a, buf) == [st |-> "running", k |-> k, at |-> a, inputBuffer |-> buf]
Done == [st |-> "done", k |-> 0, at |-> "-", inputBuffer |-> FALSE]

\* Lines 164-199: the for loop of the callback of file i from encoder index k
\* on, run until it reaches an await or the end of the list. Lines 85-91
\* (encodeWithSquoosh up to its await) are entered with enter = TRUE, after
\* the buffer was read.
RECURSIVE Loop(_, _, _, _, _)
Loop(i, k, buf, enter, acc) ==
  IF k > Len(activeEncoders)
    THEN [task |-> Done, acc |-> acc]
    ELSE
      LET encoder == activeEncoders[k]
          acc1 == IF enter THEN acc
                  ELSE [acc EXCEPT !.attempts[<< i, encoder.id >>] = @ + 1]
          squoosh ==
            IF encoder.squooshCodec = undefined
              THEN Loop(i, k + 1, TRUE, FALSE, Caught(i, k, "Missing codec", acc1))
              ELSE [task |-> Running(k, "encode", TRUE), acc |-> acc1]
      IN CASE enter -> squoosh
           [] encoder.encoderType = "copy" ->
                [task |-> Running(k, "copyFileAtomic", buf), acc |-> acc1]
           [] encoder.encoderType = "sharp" ->
                [task |-> Running(k, "encodeWithSharp", buf), acc |-> acc1]
           [] encoder.encoderType = "squoosh" ->
                IF pool = "null"
                  THEN Loop(i, k + 1, buf, FALSE,
                            Caught(i, k, "Squoosh pool unavailable", acc1))
                  ELSE IF ~buf
                    THEN [task |-> Running(k, "readFile", buf), acc |-> acc1]
                    ELSE squoosh
           [] OTHER ->
                Loop(i, k + 1, buf, FALSE,
                     [acc1 EXCEPT !.outputsByEncoder[encoder.id] = @ + 1])

\* The accumulators as they stand before a step.
Now == Acc(failures, outputsByEncoder, attempts, outcome)

\* Lines 201-203 moved into the loop: progress is counted and printed after
\* every step of a job.
ApplyPerJob(i, r) ==
  /\ task' = [task EXCEPT ![i] = r.task]
  /\ failures' = r.acc.failures
  /\ outputsByEncoder' = r.acc.outputsByEncoder
  /\ attempts' = r.acc.attempts
  /\ outcome' = r.acc.outcome
  /\ completed' = completed + 1
  /\ log' = Append(log, completed + 1)

\* The callback of file i is left as r.task with the accumulators r.acc;
\* lines 201-203 run when its loop has ended.
Apply(i, r) ==
  /\ task' = [task EXCEPT ![i] = r.task]
  /\ failures' = r.acc.failures
  /\ outputsByEncoder' = r.acc.outputsByEncoder
  /\ attempts' = r.acc.attempts
  /\ outcome' = r.acc.outcome
  /\ completed' = IF r.task.st = "done" THEN completed + 1 ELSE completed
  /\ log' = IF r.task.st = "done" THEN Append(log, completed + 1) ELSE log

\* The callbacks started without limit(): every queued callback may start.
StartTaskUnlimited(i) ==
  /\ phase = "running"
  /\ task[i].st = "queued"
  /\ Apply(i, Loop(i, 1, FALSE, FALSE, Now))
  /\ UNCHANGED << support, menu, params, phase, activeEncoders, unsupported, pool,
                  summary, poolCloses, fsVars, jobVars, runVars >>

\* Lines 160-161: p-limit starts the oldest queued callback when fewer than
\* `concurrency` callbacks are running; it runs to its first await.
StartTask(i) ==
  /\ phase = "running"
  /\ task[i].st = "queued"
  /\ \A j \in 1..(i - 1) : task[j].st # "queued"
  /\ activeCount < params.concurrency
  /\ Apply(i, Loop(i, 1, FALSE, FALSE, Now))
  /\ UNCHANGED << support, menu, params, phase, activeEncoders, unsupported, pool,
                  summary, poolCloses, fsVars, jobVars, runVars >>

\* Lines 181, 194: await copyFileAtomic resolves.
CopyResolved(i) ==
  /\ task[i].at = "copyFileAtomic"
  /\ Apply(i, Loop(i, task[i].k + 1, task[i].inputBuffer, FALSE,
                   Counted(i, task[i].k, Now)))
  /\ UNCHANGED << support, menu, params, phase, activeEncoders, unsupported, pool,
                  summary, poolCloses, fsVars, jobVars, runVars >>

\* Lines 183, 194: await encodeWithSharp resolves.
SharpResolved(i) ==
  /\ task[i].at = "encodeWithSharp"
  /\ Apply(i, Loop(i, task[i].k + 1, task[i].inputBuffer, FALSE,
                   Counted(i, task[i].k, Now)))
  /\ UNCHANGED << support, menu, params, phase, activeEncoders, unsupported, pool,
                  summary, poolCloses, fsVars, jobVars, runVars >>

\* encodeWithSquoosh called without await: the loop goes on to the next
\* encoder while the encode of this one is in flight.
ReadResolvedDetached(i) ==
  /\ task[i].at = "readFile"
  /\ Apply(i, Loop(i, task[i].k + 1, TRUE, FALSE, Now))
  /\ UNCHANGED << support, menu, params, phase, activeEncoders, unsupported, pool,
                  summary, poolCloses, fsVars, jobVars, runVars >>

\* Lines 189-191: await fs.readFile resolves; encodeWithSquoosh is entered.
ReadResolved(i) ==
  /\ task[i].at = "readFile"
  /\ Apply(i, Loop(i, task[i].k, TRUE, TRUE, Now))
  /\ UNCHANGED << support, menu, params, phase, activeEncoders, unsupported, pool,
                  summary, poolCloses, fsVars, jobVars, runVars >>

\* Lines 91-100: await image.encode resolves with a binary; writeFileAtomic
\* is awaited next.
EncodeResolved(i) ==
  /\ task[i].at = "encode"
  /\ task' = [task EXCEPT ![i].at = "writeFileAtomic"]
  /\ UNCHANGED << support, menu, params, phase, activeEncoders, unsupported, pool,
                  outputsByEncoder, failures, completed, log, summary, attempts,
                  outcome, poolCloses, fsVars, jobVars, runVars >>

\* A missing binary skipped with `continue` instead of being thrown.
EncodeEmptyDropped(i) ==
  /\ task[i].at = "encode"
  /\ Apply(i, Loop(i, task[i].k + 1, task[i].inputBuffer, FALSE, Now))
  /\ UNCHANGED << support, menu, params, phase, activeEncoders, unsupported, pool,
                  summary, poolCloses, fsVars, jobVars, runVars >>

\* Lines 96-98: await image.encode resolves without a binary.
EncodeEmpty(i) ==
  /\ task[i].at = "encode"
  /\ Apply(i, Loop(i, task[i].k + 1, task[i].inputBuffer, FALSE,
                   Caught(i, task[i].k, "Encoding failed", Now)))
  /\ UNCHANGED << support, menu, params, phase, activeEncoders, unsupported, pool,
                  summary, poolCloses, fsVars, jobVars, runVars >>

\* inputBuffer declared inside the for loop: it is gone after every job.
WriteResolvedForgetsBuffer(i) ==
  /\ task[i].at = "writeFileAtomic"
  /\ Apply(i, Loop(i, task[i].k + 1, FALSE, FALSE, Counted(i, task[i].k, Now)))
  /\ UNCHANGED << support, menu, params, phase, activeEncoders, unsupported, pool,
                  summary, poolCloses, fsVars, jobVars, runVars >>

\* Lines 100, 191, 194: await writeFileAtomic resolves.
WriteResolved(i) ==
  /\ task[i].at = "writeFileAtomic"
  /\ Apply(i, Loop(i, task[i].k + 1, task[i].inputBuffer, FALSE,
                   Counted(i, task[i].k, Now)))
  /\ UNCHANGED << support, menu, params, phase, activeEncoders, unsupported, pool,
                  summary, poolCloses, fsVars, jobVars, runVars >>

\* The try/catch around the whole loop instead of around one job: the failure
\* is recorded and the remaining encoders of the file are not attempted.
RejectedAborts(i) ==
  /\ task[i].st = "running"
  /\ Apply(i, Loop(i, Len(activeEncoders) + 1, task[i].inputBuffer, FALSE,
                   Caught(i, task[i].k, "error.message", Now)))
  /\ UNCHANGED << support, menu, params, phase, activeEncoders, unsupported, pool,
                  summary, poolCloses, fsVars, jobVars, runVars >>

\* The rejection swallowed without the callback going on: the callback never
\* returns and keeps its slot.
RejectedHangs(i) ==
  /\ task[i].st = "running"
  /\ task[i].at # "never"
  /\ task' = [task EXCEPT ![i].at = "never"]
  /\ UNCHANGED << support, menu, params, phase, activeEncoders, unsupported, pool,
                  outputsByEncoder, failures, completed, log, summary, attempts,
                  outcome, poolCloses, fsVars, jobVars, runVars >>

\* Lines 195-198: the pending await of callback i rejects (an encode or I/O
\* error with the message error.message); the catch block records it and the
\* loop goes on.
Rejected(i) ==
  /\ task[i].st = "running"
  /\ Apply(i, Loop(i, task[i].k + 1, task[i].inputBuffer, FALSE,
                   Caught(i, task[i].k, "error.message", Now)))
  /\ UNCHANGED << support, menu, params, phase, activeEncoders, unsupported, pool,
                  summary, poolCloses, fsVars, jobVars, runVars >>

\* The return without `await Promise.all(tasks)`.
ReturnEarly ==
  /\ phase = "running"
  /\ pool' = IF pool # "null" THEN "closed" ELSE pool
  /\ poolCloses' = IF pool # "null" THEN poolCloses + 1 ELSE poolCloses
  /\ summary' =
       [totalInputs |-> Len(params.inputFiles),
        outputsByEncoder |-> outputsByEncoder,
        failures |-> failures,
        unsupported |-> unsupported]
  /\ phase' = "returned"
  /\ UNCHANGED << support, menu, params, activeEncoders, unsupported, task,
                  outputsByEncoder, failures, completed, log, attempts, outcome, fsVars, jobVars, runVars >>

\* Lines 207-219: Promise.all resolves once every callback has returned; the
\* pool is closed and the summary returned (runtimeMs is left out).
Return ==
  /\ phase = "running"
  /\ \A i \in DOMAIN task : task[i].st = "done"
  /\ pool' = IF pool # "null" THEN "closed" ELSE pool
  /\ poolCloses' = IF pool # "null" THEN poolCloses + 1 ELSE poolCloses
  /\ summary' =
       [totalInputs |-> Len(params.inputFiles),
        outputsByEncoder |-> outputsByEncoder,
        failures |-> failures,
        unsupported |-> unsupported]
  /\ phase' = "returned"
  /\ UNCHANGED << support, menu, params, activeEncoders, unsupported, task,
                  outputsByEncoder, failures, completed, log, attempts, outcome, fsVars, jobVars, runVars >>

Next ==
  \/ Begin
  \/ ConstructPool
  \/ ConstructPoolFails
  \/ \E i \in DOMAIN task : StartTask(i)
  \/ \E i \in DOMAIN task : CopyResolved(i)
  \/ \E i \in DOMAIN task : SharpResolved(i)
  \/ \E i \in DOMAIN task : ReadResolved(i)
  \/ \E i \in DOMAIN task : EncodeResolved(i)
  \/ \E i \in DOMAIN task : EncodeEmpty(i)
  \/ \E i \in DOMAIN task : WriteResolved(i)
  \/ \E i \in DOMAIN task : Rejected(i)
  \/ Return

Spec == Init /\ [][Next]_vars

\* ===================================================== processImages: checks
\* The number of input files of the call.
N == Len(params.inputFiles)

\* The selected encoders of one encoderType.
Selected(type) == {params.encoders[x] : x \in {y \in 1..Len(params.encoders) :
                                               params.encoders[y].encoderType = type}}

\* The encoders of activeEncoders, as a set.
ActiveSet == {activeEncoders[x] : x \in 1..Len(activeEncoders)}

\* Job (i, enc) has ended in the catch block / with its output in place.
Failed(i, enc) == outcome[<< i, enc.id >>] \notin {"-", "stored"}
Succeeded(i, enc) == outcome[<< i, enc.id >>] = "stored"

\* The entries of failures for file i and the label of enc.
FailureEntries(i, enc) ==
  {x \in 1..Len(failures) :
     /\ failures[x].file = params.inputFiles[i]
     /\ failures[x].reason[1] = enc.label}

\* The entries of a list of unsupported entries for the id of enc.
SkipEntries(list, enc) == {x \in 1..Len(list) : list[x].id = enc.id}

\* The import or the ImagePool constructor threw in this call.
PoolFailed ==
  /\ phase \in {"running", "returned"}
  /\ pool = "null"
  /\ Selected("squoosh") # {}

\* C2: a failed job is caught at that job and recorded in failures with its
\* input file and its encoder's label; every other job is still attempted
\* (each active encoder exactly once for each file by the time the call
\* returns), and the call returns a summary that holds the failures.
C2_FailureIsolated ==
  /\ \A i \in 1..N : \A enc \in ActiveSet :
       /\ Failed(i, enc) =>
            /\ Cardinality(FailureEntries(i, enc)) = 1
            /\ \A x \in FailureEntries(i, enc) :
                 failures[x].reason[2] = outcome[<< i, enc.id >>]
       /\ phase = "returned" =>
            /\ attempts[<< i, enc.id >>] = 1
            /\ Failed(i, enc) \/ Succeeded(i, enc)
  /\ phase = "returned" => summary # NoSummary /\ summary.failures = failures

\* C2 witness: the call has returned; the first encoder's job of file 1
\* failed, the next encoder's job of file 1 and the first encoder's job of
\* file 2 were still stored.
C2_Witness ==
  /\ phase = "returned"
  /\ N >= 2
  /\ Len(activeEncoders) >= 2
  /\ Failed(1, activeEncoders[1])
  /\ Succeeded(1, activeEncoders[2])
  /\ Succeeded(2, activeEncoders[1])

\* C3: at most `concurrency` callbacks are in flight, and so at most
\* `concurrency` encode requests are with the pool at once.
C3_BoundedConcurrency ==
  /\ activeCount <= params.concurrency
  /\ poolInFlight <= params.concurrency

\* C3 witness: two encode requests are in flight under limit 2 while a third
\* file waits in the queue.
C3_Witness ==
  /\ params.concurrency = 2
  /\ poolInFlight = 2
  /\ \E i \in DOMAIN task : task[i].st = "queued"

\* C4: a constructed pool is closed exactly once, by the time the call
\* returns and not before every callback has returned; no encode request is
\* in flight at or after the close.
C4_PoolClosedOnce ==
  /\ poolCloses <= 1
  /\ pool = "null" => poolCloses = 0
  /\ pool = "open" => poolCloses = 0 /\ phase # "returned"
  /\ pool = "closed" =>
       /\ poolCloses = 1
       /\ phase = "returned"
       /\ \A i \in DOMAIN task : task[i].st = "done"
       /\ poolInFlight = 0

\* C4 witness: the pool was closed after two jobs used it for different files
\* and one of them failed.
C4_Witness ==
  /\ pool = "closed"
  /\ \E enc \in ActiveSet :
       /\ enc.encoderType = "squoosh"
       /\ \E i, j \in 1..N : Succeeded(i, enc) /\ Failed(j, enc)

\* C5: when pool construction fails, the call goes on: no squoosh encoder is
\* active or attempted, each is in the unsupported list once with skipped = N,
\* and every other active encoder is attempted for every file before the call
\* returns its summary.
C5_PoolFailureDowngrades ==
  PoolFailed =>
    /\ \A enc \in Selected("squoosh") :
         /\ enc \notin ActiveSet
         /\ \A i \in 1..N : attempts[<< i, enc.id >>] = 0 /\ outcome[<< i, enc.id >>] = "-"
         /\ outputsByEncoder[enc.id] = 0
         /\ Cardinality(SkipEntries(unsupported, enc)) = 1
         /\ \A x \in SkipEntries(unsupported, enc) :
              unsupported[x] = [id |-> enc.id, label |-> enc.label, skipped |-> N]
    /\ \A enc \in Selected("sharp") \cup Selected("copy") : enc \in ActiveSet
    /\ phase = "returned" =>
         /\ summary # NoSummary
         /\ summary.unsupported = unsupported
         /\ \A enc \in Selected("sharp") \cup Selected("copy") :
              \A i \in 1..N : attempts[<< i, enc.id >>] = 1

\* C5 witness: pool construction failed for a selection with a squoosh
\* encoder, and the copy encoder was stored for two files.
C5_Witness ==
  /\ PoolFailed
  /\ phase = "returned"
  /\ N >= 2
  /\ \E enc \in Selected("copy") : \A i \in 1..N : Succeeded(i, enc)

\* C6: a selected encoder whose strategy is unsupported is in the unsupported
\* list once with skipped = N, no job is attempted for it, nothing is stored
\* for it and its outputsByEncoder count is 0.
C6_UnsupportedSkipped ==
  \A enc \in Selected("unsupported") :
    /\ \A i \in 1..N : attempts[<< i, enc.id >>] = 0 /\ outcome[<< i, enc.id >>] = "-"
    /\ outputsByEncoder[enc.id] = 0
    /\ enc \notin ActiveSet
    /\ phase # "called" =>
         /\ Cardinality(SkipEntries(unsupported, enc)) = 1
         /\ \A x \in SkipEntries(unsupported, enc) : unsupported[x].skipped = N
    /\ phase = "returned" =>
         /\ Cardinality(SkipEntries(summary.unsupported, enc)) = 1
         /\ \A x \in SkipEntries(summary.unsupported, enc) :
              summary.unsupported[x].skipped = N
         /\ summary.outputsByEncoder[enc.id] = 0

\* C6 witness: a call for three files has returned with an unsupported
\* encoder selected next to one that stored its output.
C6_Witness ==
  /\ phase = "returned"
  /\ N = 3
  /\ Selected("unsupported") # {}
  /\ \E enc \in ActiveSet : \A i \in 1..N : Succeeded(i, enc)

\* The entries of the summary's failures that carry the label of enc.
LabelFailures(enc) ==
  {x \in 1..Len(summary.failures) : summary.failures[x].reason[1] = enc.label}

\* C7: in the summary returned, every selected encoder is either in the
\* unsupported list once, with skipped = N, no successes and no failures, or
\* is not in that list and its successes plus its failure entries are N; each
\* (file, active encoder) pair was attempted once and is counted once.
C7_EveryJobAccounted ==
  phase = "returned" =>
    /\ summary.totalInputs = N
    /\ \A x \in 1..Len(params.encoders) :
         LET enc == params.encoders[x] IN
         \/ /\ Cardinality(SkipEntries(summary.unsupported, enc)) = 1
            /\ \A y \in SkipEntries(summary.unsupported, enc) :
                 summary.unsupported[y].skipped = N
            /\ summary.outputsByEncoder[enc.id] = 0
            /\ LabelFailures(enc) = {}
         \/ /\ SkipEntries(summary.unsupported, enc) = {}
            /\ enc \in ActiveSet
            /\ summary.outputsByEncoder[enc.id] + Cardinality(LabelFailures(enc)) = N
            /\ \A i \in 1..N :
                 /\ attempts[<< i, enc.id >>] = 1
                 /\ Cardinality(FailureEntries(i, enc))
                      + (IF Succeeded(i, enc) THEN 1 ELSE 0) = 1
    /\ \A id \in EncoderIds \ Ids(params.encoders) : summary.outputsByEncoder[id] = 0
    /\ Len(summary.unsupported) + Len(activeEncoders) = Len(params.encoders)

\* C7 witness: a summary for three files in which one encoder has both
\* successes and a failure and another encoder was skipped.
C7_Witness ==
  /\ phase = "returned"
  /\ N = 3
  /\ Len(summary.unsupported) >= 1
  /\ \E enc \in ActiveSet :
       /\ summary.outputsByEncoder[enc.id] = 2
       /\ Cardinality(LabelFailures(enc)) = 1

\* The summary that the inputs of the call and the outcomes of its awaits
\* (pool construction, each job) determine. Neither params.concurrency nor
\* the order of the steps occurs in it.
ExpectedSummary ==
  LET skip(type) ==
        LET list == SelectSeq(params.encoders, LAMBDA enc : enc.encoderType = type)
        IN [x \in 1..Len(list) |->
              [id |-> list[x].id, label |-> list[x].label, skipped |-> N]]
  IN [totalInputs |-> N,
      outputsByEncoder |->
        [id \in EncoderIds |->
           Cardinality({i \in 1..N : /\ << i, id >> \in DOMAIN outcome
                                     /\ outcome[<< i, id >>] = "stored"})],
      failures |->
        {[file |-> params.inputFiles[j[1]],
          reason |-> << params.encoders[j[2]].label,
                        outcome[<< j[1], params.encoders[j[2]].id >>] >>] :
           j \in {y \in (1..N) \X (1..Len(params.encoders)) :
                    outcome[<< y[1], params.encoders[y[2]].id >>] \notin {"-", "stored"}}},
      unsupported |->
        skip("unsupported") \o (IF PoolFailed THEN skip("squoosh") ELSE << >>)]

\* C8: the summary returned is the one the inputs and the outcomes determine,
\* for every concurrency limit and every interleaving: the same success
\* counts, the same set of failures (each once) and the same unsupported list.
C8_SummaryIndependentOfConcurrency ==
  phase = "returned" =>
    /\ summary.totalInputs = ExpectedSummary.totalInputs
    /\ summary.outputsByEncoder = ExpectedSummary.outputsByEncoder
    /\ {summary.failures[x] : x \in 1..Len(summary.failures)} = ExpectedSummary.failures
    /\ Len(summary.failures) = Cardinality(ExpectedSummary.failures)
    /\ summary.unsupported = ExpectedSummary.unsupported

\* C8 witness: a run under limit 3 whose failures were pushed in another order
\* than under limit 1 (file 2 before file 1), next to a stored output.
C8_Witness ==
  /\ phase = "returned"
  /\ params.concurrency = 3
  /\ N = 3
  /\ Len(summary.failures) >= 2
  /\ summary.failures[1].file = params.inputFiles[2]
  /\ summary.failures[2].file = params.inputFiles[1]
  /\ \E id \in EncoderIds : summary.outputsByEncoder[id] >= 1

\* C9: one progress line per returned callback, printed only after every
\* active encoder was attempted for its file; the values printed are
\* 1, 2, ... in this order, and the counter is N when the call returns.
C9_ProgressPerFile ==
  /\ completed = Cardinality({i \in DOMAIN task : task[i].st = "done"})
  /\ Len(log) = completed
  /\ \A x \in 1..Len(log) : log[x] = x
  /\ \A i \in DOMAIN task : task[i].st = "done" =>
       \A enc \in ActiveSet :
         /\ attempts[<< i, enc.id >>] = 1
         /\ Failed(i, enc) \/ Succeeded(i, enc)
  /\ phase = "returned" => completed = N /\ Len(log) = N

\* C9 witness: files 2 and 3 were reported as 1 and 2 while file 1, started
\* first, is still in flight on its second job.
C9_Witness ==
  /\ N = 3
  /\ log = << 1, 2 >>
  /\ task[1].st = "running"
  /\ task[1].k = 2
  /\ task[2].st = "done"
  /\ task[3].st = "done"

\* ============================================================ getMenuOptions
\* main, line 236: the catalog is resolved from the capability set.
ResolveMenu ==
  /\ menu = << >>
  /\ menu' = getMenuOptions(support)
  /\ UNCHANGED << support, procVars, fsVars, jobVars, runVars >>

InitMenu ==
  /\ support \in SquooshSupport
  /\ menu = << >>
  /\ ProcIdle
  /\ FsIdle
  /\ JobIdle
  /\ RunIdle

NextMenu == ResolveMenu

SpecMenu == InitMenu /\ [][NextMenu]_vars

\* The ids encodeWithSharp has a case for (process.ts, lines 54-72): the
\* formats with a native fallback.
SharpCases == {"browser-jpeg", "mozjpeg", "browser-png", "webp", "avif"}

\* The ids getSquooshEncodeOptions has a case for (lines 240-252): the formats
\* with an advanced codec; the codec key equals the id.
SquooshCases == {"mozjpeg", "webp", "avif", "oxipng", "jxl", "wp2"}

\* The strategy the priority advanced, native fallback, unsupported gives.
Priority(id, sup) ==
  IF id = "original" THEN "copy"
  ELSE IF id \in SquooshCases /\ sup[id] THEN "squoosh"
  ELSE IF id \in SharpCases THEN "sharp"
  ELSE "unsupported"

\* C10: for every capability set the catalog has one entry per format, each
\* bound to the strategy the priority gives: squoosh only when the capability
\* set marks the codec usable (and then with that codec), else sharp when the
\* format has a native fallback, else unsupported; original alone is copy.
C10_StrategyByPriority ==
  menu # << >> =>
    /\ Len(menu) = Cardinality(EncoderIds)
    /\ \A id \in EncoderIds : Cardinality({x \in 1..Len(menu) : menu[x].id = id}) = 1
    /\ \A x \in 1..Len(menu) :
         /\ menu[x].encoderType = Priority(menu[x].id, support)
         /\ menu[x].encoderType = "squoosh" =>
              /\ menu[x].id \in Codecs
              /\ support[menu[x].id]
              /\ menu[x].squooshCodec = menu[x].id
         /\ menu[x].encoderType # "squoosh" => menu[x].squooshCodec = undefined
         /\ menu[x].encoderType = "sharp" <=> menu[x].sharpFormat # undefined
    /\ {menu[x].id : x \in {y \in 1..Len(menu) : menu[y].encoderType = "copy"}} = {"original"}

\* C10 witness: a resolved catalog for a capability set in which one codec
\* with a fallback and one without are usable and one of each kind is not.
C10_Witness ==
  /\ menu # << >>
  /\ support["webp"] /\ ~support["avif"]
  /\ support["jxl"] /\ ~support["wp2"]

\* The mozjpeg entry of the resolved catalog.
MozjpegEntry == menu[CHOOSE x \in 1..Len(menu) : menu[x].id = "mozjpeg"]

\* C11: for every capability set the catalog has one mozjpeg entry; it is
\* squoosh or sharp, never unsupported, its extension is jpg, its label is
\* 'MozJPEG' exactly when it resolved to squoosh, and its label is
\* 'JPEG fallback (not true MozJPEG)' with isFallback set exactly when it
\* resolved to sharp.
C11_MozjpegLabelled ==
  menu # << >> =>
    /\ Cardinality({x \in 1..Len(menu) : menu[x].id = "mozjpeg"}) = 1
    /\ MozjpegEntry.encoderType \in {"squoosh", "sharp"}
    /\ MozjpegEntry.ext = "jpg"
    /\ MozjpegEntry.label = "MozJPEG" <=> MozjpegEntry.encoderType = "squoosh"
    /\ (/\ MozjpegEntry.label = "JPEG fallback (not true MozJPEG)"
        /\ MozjpegEntry.isFallback)
         <=> MozjpegEntry.encoderType = "sharp"
    /\ MozjpegEntry.isFallback <=> MozjpegEntry.encoderType = "sharp"
    /\ MozjpegEntry.encoderType = "squoosh" <=> support["mozjpeg"]

\* C11 witness: a catalog resolved where the mozjpeg codec is not usable while
\* another advanced codec is: the entry is the sharp fallback and says so.
C11_Witness ==
  /\ menu # << >>
  /\ ~support["mozjpeg"]
  /\ support["webp"]
  /\ MozjpegEntry.encoderType = "sharp"
  /\ MozjpegEntry.isFallback

\* The ids of a catalog, in its order.
MenuOrder(list) == [x \in 1..Len(list) |-> list[x].id]

Writers == 1..MaxWriters

\* The three functions that store an output file.
Ops == {"writeFileAtomic", "copyFileAtomic", "encodeWithSharp"}

\* The destination of call w: a batch in directory mode writing webp, so the
\* calls for the first two files have the same destination.
Target(w) == buildOutputPath(ScanOrder[w], TRUE, "webp")

\* Every destination of the calls.
Targets == {Target(w) : w \in Writers}

\* path.dirname of a path below outputRoot, and the directories that
\* mkdir(dirPath, {recursive: true}) makes exist.
dirname(p) == p.dir
MkdirRecursive(dirPath) == {SubSeq(dirPath, 1, n) : n \in 0..Len(dirPath)}

\* getTempPath writing to the target itself.
getTempPathInPlace(targetPath, stamp) == targetPath

\* getTempPath without the stamp: every call for a target has the same path.
getTempPathNoStamp(targetPath, stamp) ==
  [dir |-> targetPath.dir, fileName |-> targetPath.fileName \o << ".tmp" >>]

\* getTempPath(targetPath): `${targetPath}.tmp-${stamp}`, in the directory of
\* the target. The stamp `${process.pid}-${Date.now()}-${Math.random()...}`
\* is taken to differ from call to call; it is the number of the call.
getTempPath(targetPath, stamp) ==
  [dir |-> targetPath.dir, fileName |-> targetPath.fileName \o << ".tmp-", stamp >>]

\* A path that does not exist, and a file with `bytes` of the ContentLen
\* bytes that call `by` writes (by = 0: a complete file from an earlier run).
Absent == [exists |-> FALSE, by |-> 0, bytes |-> 0]
File(by, bytes) == [exists |-> TRUE, by |-> by, bytes |-> bytes]

\* Every path a call can touch.
Paths == Targets \cup {getTempPath(Target(w), w) : w \in Writers}

NotCalled == [op |-> "-", at |-> "-", tempPath |-> << >>]

FsInit ==
  /\ writer = [w \in Writers |-> NotCalled]
  /\ \E prior \in BOOLEAN :
       disk = [p \in Paths |-> IF prior /\ p \in Targets THEN File(0, ContentLen) ELSE Absent]
  /\ dirs = {<< >>}
  /\ crashed = FALSE

InitAtomic ==
  /\ support = [c \in Codecs |-> FALSE]
  /\ menu = << >>
  /\ ProcIdle
  /\ FsInit
  /\ JobIdle
  /\ RunIdle

\* fs.ts lines 13-14, 20-21; process.ts lines 49-50: the call runs to its
\* first await, ensureDir. encodeWithSharp has taken its temporary path by
\* then, the other two have not.
Call(w, op) ==
  /\ ~crashed
  /\ writer[w].op = "-"
  /\ writer' = [writer EXCEPT ![w] =
       [op |-> op, at |-> "ensureDir",
        tempPath |-> IF op = "encodeWithSharp" THEN getTempPath(Target(w), w) ELSE << >>]]
  /\ UNCHANGED << support, menu, procVars, jobVars, runVars, disk, dirs, crashed >>

\* fs.ts lines 5, 15-16, 22-23; process.ts lines 52-74: mkdir resolves, the
\* temporary path is taken and the write to it (fs.writeFile, fs.copyFile,
\* pipeline.toFile) is started.
EnsureDirResolved(w) ==
  /\ ~crashed
  /\ writer[w].at = "ensureDir"
  /\ dirs' = dirs \cup MkdirRecursive(dirname(Target(w)))
  /\ writer' = [writer EXCEPT ![w].at = "write",
                              ![w].tempPath = IF writer[w].op = "encodeWithSharp"
                                                THEN @ ELSE getTempPath(Target(w), w)]
  /\ UNCHANGED << support, menu, procVars, jobVars, runVars, disk, crashed >>

\* The write under way creates or truncates the file at its path.
WriteOpens(w) ==
  /\ ~crashed
  /\ writer[w].at = "write"
  /\ dirname(writer[w].tempPath) \in dirs
  /\ ~(disk[writer[w].tempPath].exists /\ disk[writer[w].tempPath].by = w)
  /\ disk' = [disk EXCEPT ![writer[w].tempPath] = File(w, 0)]
  /\ UNCHANGED << support, menu, procVars, jobVars, runVars, writer, dirs, crashed >>

\* The write under way adds the next byte to its file.
WriteChunk(w) ==
  /\ ~crashed
  /\ writer[w].at = "write"
  /\ disk[writer[w].tempPath].exists
  /\ disk[writer[w].tempPath].by = w
  /\ disk[writer[w].tempPath].bytes < ContentLen
  /\ disk' = [disk EXCEPT ![writer[w].tempPath].bytes = @ + 1]
  /\ UNCHANGED << support, menu, procVars, jobVars, runVars, writer, dirs, crashed >>

\* fs.ts lines 16-17, 23-24; process.ts lines 74-75: the write resolves with
\* every byte written, and fs.rename is called.
WriteResolves(w) ==
  /\ ~crashed
  /\ writer[w].at = "write"
  /\ disk[writer[w].tempPath] = File(w, ContentLen)
  /\ writer' = [writer EXCEPT ![w].at = "rename"]
  /\ UNCHANGED << support, menu, procVars, jobVars, runVars, disk, dirs, crashed >>

\* The temporary file copied onto the target and left where it is.
RenameResolvedCopies(w) ==
  /\ ~crashed
  /\ writer[w].at = "rename"
  /\ disk[writer[w].tempPath].exists
  /\ disk' = [disk EXCEPT ![Target(w)] = disk[writer[w].tempPath]]
  /\ writer' = [writer EXCEPT ![w].at = "resolved"]
  /\ UNCHANGED << support, menu, procVars, jobVars, runVars, dirs, crashed >>

\* fs.ts lines 17, 24; process.ts line 75: rename moves the temporary file
\* onto the target in one step, and the call resolves.
RenameResolved(w) ==
  /\ ~crashed
  /\ writer[w].at = "rename"
  /\ disk[writer[w].tempPath].exists
  /\ disk' = IF writer[w].tempPath = Target(w) THEN disk
             ELSE [disk EXCEPT ![Target(w)] = disk[writer[w].tempPath],
                               ![writer[w].tempPath] = Absent]
  /\ writer' = [writer EXCEPT ![w].at = "resolved"]
  /\ UNCHANGED << support, menu, procVars, jobVars, runVars, dirs, crashed >>

\* The await the call is at rejects (an I/O error, or the default case of the
\* switch of encodeWithSharp); the call rejects and leaves the disk as it is.
CallRejects(w) ==
  /\ ~crashed
  /\ writer[w].at \in {"ensureDir", "write", "rename"}
  /\ writer' = [writer EXCEPT ![w].at = "rejected"]
  /\ UNCHANGED << support, menu, procVars, jobVars, runVars, disk, dirs, crashed >>

\* The process is killed between two steps; the disk stays as it is.
Crash ==
  /\ ~crashed
  /\ crashed' = TRUE
  /\ UNCHANGED << support, menu, procVars, jobVars, runVars, writer, disk, dirs >>

NextAtomic ==
  \/ \E w \in Writers, op \in Ops : Call(w, op)
  \/ \E w \in Writers : EnsureDirResolved(w)
  \/ \E w \in Writers : WriteOpens(w)
  \/ \E w \in Writers : WriteChunk(w)
  \/ \E w \in Writers : WriteResolves(w)
  \/ \E w \in Writers : RenameResolved(w)
  \/ \E w \in Writers : CallRejects(w)
  \/ Crash

SpecAtomic == InitAtomic /\ [][NextAtomic]_vars

\* C1: in every state, also after a crash and with other calls under way, a
\* destination is absent or holds a complete file (the earlier one or the
\* whole output of one call); bytes are written to temporary paths only, and
\* a destination changes only in the step of a rename.
C1_DestinationNeverPartial ==
  /\ \A t \in Targets : disk[t].exists => disk[t].bytes = ContentLen
  /\ \A w \in Writers :
       /\ writer[w].at \in {"write", "rename"} => writer[w].tempPath \notin Targets
       /\ writer[w].at \notin {"resolved"} =>
            \A t \in Targets : ~(disk[t].exists /\ disk[t].by = w)

\* C1 witness: the process was killed while call 1 had written part of its
\* temporary file; its destination holds the complete output of call 2.
C1_Witness ==
  /\ crashed
  /\ writer[1].at = "write"
  /\ disk[writer[1].tempPath].exists
  /\ disk[writer[1].tempPath].bytes \in 1..(ContentLen - 1)
  /\ Target(1) = Target(2)
  /\ disk[Target(1)] = File(2, ContentLen)

\* ============================================================ output paths
\* The path resolution of processImages (lines 164-175) for one batch. The
\* other variables of processImages stay as they are before the call.

\* SUPPORTED_INPUT_EXTS, without the dot.
SUPPORTED_INPUT_EXTS == {"jpg", "jpeg", "png", "webp", "avif", "gif"}

\* isSupportedImagePath(filePath)
isSupportedImagePath(inputFile) == toLowerCase(inputFile.ext) \in SUPPORTED_INPUT_EXTS

\* The files below inputRoot that collectImagesRecursive returns for a folder,
\* in scan order: its patterns `**/*${ext}` match the extensions as written.
FolderInputs ==
  << InputFile(<< >>, "a", "png"),
     InputFile(<< >>, "a", "jpg"),
     InputFile(<<"sub">>, "a", "png"),
     InputFile(<<"sub", "deep">>, "a", "png"),
     InputFile(<<"sub", "deep">>, "b", "webp") >>

\* The paths a user can name as a single input file; inputRoot is the
\* directory of the file.
FileInputs ==
  { InputFile(<< >>, "a", "png"),
    InputFile(<< >>, "b", "PNG"),
    InputFile(<< >>, "a", "jpg"),
    InputFile(<< >>, "a", "txt") }

\* The entries of seq at the indices idx, in the order of seq.
Pick(seq, idx) ==
  [x \in 1..Cardinality(idx) |->
     seq[CHOOSE i \in idx : Cardinality({j \in idx : j < i}) = x - 1]]

\* main, lines 215-233: the batches that reach processImages, a single
\* supported file or a non-empty list of the files found in a folder.
Batches ==
  {[inputFiles |-> << f >>, isDirectory |-> FALSE] :
     f \in {g \in FileInputs : isSupportedImagePath(g)}}
  \cup
  {[inputFiles |-> Pick(FolderInputs, idx), isDirectory |-> TRUE] :
     idx \in {s \in SUBSET (1..Len(FolderInputs)) :
                Cardinality(s) \in 1..MaxBatch}}

\* main, lines 263-267: the selections of menu entries.
Selections == {s \in SUBSET EncoderIds : Cardinality(s) \in 1..MaxSelected}

InitPaths ==
  /\ support \in SupportChoices
  /\ menu = getMenuOptions(support)
  /\ \E batch \in Batches, sel \in Selections :
       /\ params =
            [inputFiles |-> batch.inputFiles,
             isDirectory |-> batch.isDirectory,
             encoders |-> SelectSeq(menu, LAMBDA option : option.id \in sel),
             quality |-> [default |-> 75, overrides |-> << >>],
             concurrency |-> 1]
       /\ activeEncoders =
            SelectSeq(params.encoders, LAMBDA enc : enc.encoderType # "unsupported")
       /\ outputPaths = [i \in 1..Len(batch.inputFiles) |-> << >>]
  /\ task = << >>
  /\ phase = "idle"
  /\ unsupported = << >>
  /\ pool = "null"
  /\ outputsByEncoder = [id \in EncoderIds |-> 0]
  /\ failures = << >>
  /\ completed = 0
  /\ log = << >>
  /\ summary = NoSummary
  /\ attempts = << >>
  /\ outcome = << >>
  /\ poolCloses = 0
  /\ FsIdle
  /\ job = NoJob
  /\ RunIdle

\* Lines 165-167 without the special case: every encoder uses its fixed ext.
outputExtFixed(encoder, inputFile) == encoder.ext

\* Lines 165-167: const outputExt.
outputExt(encoder, inputFile) ==
  IF encoder.id = "original" THEN getOriginalExtension(inputFile) ELSE encoder.ext

\* Lines 164-175: the callback of file i enters the loop body of its next
\* encoder and resolves the outputPath of that job.
ResolveOutputPath(i) ==
  /\ Len(outputPaths[i]) < Len(activeEncoders)
  /\ LET inputFile == params.inputFiles[i]
         encoder == activeEncoders[Len(outputPaths[i]) + 1]
     IN outputPaths' =
          [outputPaths EXCEPT ![i] =
             Append(@, buildOutputPath(inputFile, params.isDirectory,
                                       outputExt(encoder, inputFile)))]
  /\ UNCHANGED << support, menu, procVars, fsVars, job, runVars >>

NextPaths == \E i \in DOMAIN outputPaths : ResolveOutputPath(i)

SpecPaths == InitPaths /\ [][NextPaths]_vars

\* The jobs of the batch whose outputPath is resolved, as (file, encoder)
\* index pairs.
Resolved == {j \in (DOMAIN outputPaths) \X (1..Len(activeEncoders)) :
               j[2] <= Len(outputPaths[j[1]])}

\* The extension at the end of an output path.
ExtOf(path) == path.fileName[Len(path.fileName)]

\* C12: buildOutputPath is injective on the input files of a batch: two
\* distinct input files never get the same output path for the same encoder
\* and output extension.
C12_OutputPathInjective ==
  \A a, b \in Resolved :
    (/\ a[1] # b[1]
     /\ a[2] = b[2]
     /\ ExtOf(outputPaths[a[1]][a[2]]) = ExtOf(outputPaths[b[1]][b[2]]))
      => outputPaths[a[1]][a[2]] # outputPaths[b[1]][b[2]]

\* C13: for one input file two distinct active encoders never resolve to the
\* same output path, so a file whose jobs are all resolved has as many
\* distinct output paths as there are active encoders (and the batch has
\* files x encoders of them when no two files share one).
C13_OneOutputPerJob ==
  /\ \A a, b \in Resolved :
       (a[1] = b[1] /\ a[2] # b[2])
         => outputPaths[a[1]][a[2]] # outputPaths[b[1]][b[2]]
  /\ \A i \in DOMAIN outputPaths :
       Len(outputPaths[i]) = Len(activeEncoders) =>
         Cardinality({outputPaths[i][k] : k \in 1..Len(outputPaths[i])})
           = Len(activeEncoders)

\* C14: the file name of an output path is the base name of the input file
\* without its extension, then '-squoosh.', then the output extension; in
\* single-file mode the path lies directly under outputRoot, in directory mode
\* in the directory the input file has below inputRoot, at every depth.
C14_OutputPathShape ==
  \A j \in Resolved :
    LET inputFile == params.inputFiles[j[1]]
        encoder == activeEncoders[j[2]]
        path == outputPaths[j[1]][j[2]]
    IN /\ Len(path.fileName) = 3
       /\ path.fileName[1] = inputFile.name
       /\ path.fileName[2] = "-squoosh."
       /\ path.fileName[3] =
            IF encoder.id = "original" THEN toLowerCase(inputFile.ext) ELSE encoder.ext
       /\ ~params.isDirectory => path.dir = << >>
       /\ params.isDirectory => path.dir = inputFile.dir

\* C14 witness: in directory mode a file two directories below inputRoot and
\* a file directly in inputRoot have resolved their output paths.
C14_Witness ==
  /\ params.isDirectory
  /\ \E a, b \in Resolved :
       /\ Len(params.inputFiles[a[1]].dir) = 2
       /\ outputPaths[a[1]][a[2]].dir = <<"sub", "deep">>
       /\ params.inputFiles[b[1]].dir = << >>
       /\ outputPaths[b[1]][b[2]].dir = << >>

MathMin(a, b) == IF a < b THEN a ELSE b
MathMax(a, b) == IF a > b THEN a ELSE b

\* Math.round of the fraction num / den (den > 0): the nearest integer, a half
\* rounded up. The fractions of mapQualityToAvifCq are a half away from an
\* integer only at 7 and 19, where the floating-point value is exact.
MathRound(num, den) == (2 * num + den) \div (2 * den)

\* mapQualityToAvifCq with the ends of its third segment exchanged.
mapQualityToAvifCqSwapped(quality) ==
  LET q == MathMin(100, MathMax(1, quality))
      cq == IF q >= 75 THEN [num |-> 30 * 25 + (10 - 30) * (q - 75), den |-> 25]
            ELSE IF q >= 50 THEN [num |-> 40 * 25 + (30 - 40) * (q - 50), den |-> 25]
            ELSE IF q >= 25 THEN [num |-> 40 * 25 + (50 - 40) * (q - 25), den |-> 25]
            ELSE [num |-> 60 * 24 + (50 - 60) * (q - 1), den |-> 24]
  IN MathMin(63, MathMax(0, MathRound(cq.num, cq.den)))

\* mapQualityToAvifCq without line 109: the quality is used as it comes.
mapQualityToAvifCqUnclamped(quality) ==
  LET q == quality
      cq == IF q >= 75 THEN [num |-> 30 * 25 + (10 - 30) * (q - 75), den |-> 25]
            ELSE IF q >= 50 THEN [num |-> 40 * 25 + (30 - 40) * (q - 50), den |-> 25]
            ELSE IF q >= 25 THEN [num |-> 50 * 25 + (40 - 50) * (q - 25), den |-> 25]
            ELSE [num |-> 60 * 24 + (50 - 60) * (q - 1), den |-> 24]
  IN MathMin(63, MathMax(0, MathRound(cq.num, cq.den)))

\* mapQualityToAvifCq(quality): cq = c0 + (c1 - c0) * t with t = (q - q0) / d
\* is kept as the fraction (c0 * d + (c1 - c0) * (q - q0)) / d.
mapQualityToAvifCq(quality) ==
  LET q == MathMin(100, MathMax(1, quality))
      cq == IF q >= 75 THEN [num |-> 30 * 25 + (10 - 30) * (q - 75), den |-> 25]
            ELSE IF q >= 50 THEN [num |-> 40 * 25 + (30 - 40) * (q - 50), den |-> 25]
            ELSE IF q >= 25 THEN [num |-> 50 * 25 + (40 - 50) * (q - 25), den |-> 25]
            ELSE [num |-> 60 * 24 + (50 - 60) * (q - 1), den |-> 24]
  IN MathMin(63, MathMax(0, MathRound(cq.num, cq.den)))

\* getSquooshEncodeOptions(id, quality)
getSquooshEncodeOptions(id, quality) ==
  CASE id = "mozjpeg" -> [quality |-> quality]
    [] id = "webp" -> [quality |-> quality]
    [] id = "avif" -> [cqLevel |-> mapQualityToAvifCq(quality)]
    [] id = "oxipng" -> [level |-> 4]
    [] id = "jxl" -> [quality |-> quality]
    [] id = "wp2" -> [quality |-> quality]
    [] OTHER -> << >>

\* The switch of encodeWithSharp (process.ts lines 54-72): the options of the
\* sharp pipeline; the default case throws.
SharpOptions(id, quality) ==
  CASE id = "browser-jpeg" -> [quality |-> quality, mozjpeg |-> FALSE]
    [] id = "mozjpeg" -> [quality |-> quality, mozjpeg |-> TRUE]
    [] id = "browser-png" -> [compressionLevel |-> 9, adaptiveFiltering |-> TRUE]
    [] id = "webp" -> [quality |-> quality]
    [] id = "avif" -> [quality |-> quality]
    [] OTHER -> << >>

\* getQualityForEncoder with || in place of ??: an override of 0 counts as
\* no override.
getQualityForEncoderOr(encoder, quality) ==
  IF encoder.id \in DOMAIN quality.overrides /\ quality.overrides[encoder.id] # 0
    THEN quality.overrides[encoder.id]
    ELSE quality.default

\* getQualityForEncoder(encoder, quality): overrides[encoder.id] ?? default.
\* A key that overrides does not have reads as undefined.
getQualityForEncoder(encoder, quality) ==
  IF encoder.id \in DOMAIN quality.overrides
    THEN quality.overrides[encoder.id]
    ELSE quality.default

\* promptForQuality (main, lines 159-162 and 185-188): a prompted quality is
\* accepted when 1 <= num <= 100.
PromptedQualities == 1..100

\* main, line 256: with --yes the quality of the saved configuration is used
\* as it was read, whatever its numbers are.
SavedQualities == (1 - QualityMargin)..(100 + QualityMargin)

\* The overrides of the configurations: some values of SavedQualities, for
\* none, one or both of two encoders.
OverrideQualities == {1 - QualityMargin, 0, 1, 60, 100, 100 + QualityMargin}
OverrideIds == {"avif", "webp"}

\* Every QualityConfig with its numbers in `qualities`.
QualityConfigs(qualities) ==
  {[default |-> d, overrides |-> o] :
     d \in qualities,
     o \in UNION {[ids -> qualities \cap OverrideQualities] : ids \in SUBSET OverrideIds}}

\* main, lines 251-296: processImages is called with every menu entry selected
\* and a quality configuration that was prompted or read from the saved file.
InitQuality ==
  /\ support \in SupportChoices
  /\ menu = getMenuOptions(support)
  /\ \E quality \in QualityConfigs(PromptedQualities) \cup QualityConfigs(SavedQualities) :
       params =
         [inputFiles |-> << InputFile(<< >>, "a", "png") >>,
          isDirectory |-> FALSE,
          encoders |-> menu,
          quality |-> quality,
          concurrency |-> 1]
  /\ activeEncoders = SelectSeq(menu, LAMBDA enc : enc.encoderType # "unsupported")
  /\ task = << >>
  /\ phase = "idle"
  /\ unsupported = << >>
  /\ pool = "null"
  /\ outputsByEncoder = [id \in EncoderIds |-> 0]
  /\ failures = << >>
  /\ completed = 0
  /\ log = << >>
  /\ summary = NoSummary
  /\ attempts = << >>
  /\ outcome = << >>
  /\ poolCloses = 0
  /\ FsIdle
  /\ JobIdle
  /\ RunIdle

\* Lines 178-191, 54-72 and 90-91: the job of the encoder at k takes its
\* quality and builds the options of its codec.
PrepareJob(k) ==
  /\ LET encoder == activeEncoders[k]
         quality == getQualityForEncoder(encoder, params.quality)
     IN job' =
          [id |-> encoder.id,
           encoderType |-> encoder.encoderType,
           quality |-> quality,
           options |->
             CASE encoder.encoderType = "sharp" -> SharpOptions(encoder.id, quality)
               [] encoder.encoderType = "squoosh" ->
                    getSquooshEncodeOptions(encoder.id, quality)
               [] OTHER -> << >>]
  /\ UNCHANGED << support, menu, procVars, fsVars, outputPaths, runVars >>

NextQuality == \E k \in 1..Len(activeEncoders) : PrepareJob(k)

SpecQuality == InitQuality /\ [][NextQuality]_vars

\* The job prepared last encodes AVIF with the squoosh codec.
AvifJob == job # NoJob /\ job.id = "avif" /\ job.encoderType = "squoosh"

\* C16: the cqLevel of a quality in 1..100 is at least the cqLevel of every
\* larger quality in 1..100 (also across 25, 50 and 75), and the cqLevel of
\* every quality is an integer in 0..63.
C16_AvifCqMonotone ==
  AvifJob =>
    /\ job.options.cqLevel \in 0..63
    /\ job.quality \in 1..100 =>
         \A q2 \in job.quality..100 : job.options.cqLevel >= mapQualityToAvifCq(q2)

\* C16 witness: quality 49, just below the breakpoint 50, was mapped to 40,
\* the cqLevel of 50 itself.
C16_Witness ==
  /\ AvifJob
  /\ job.quality = 49
  /\ job.options.cqLevel = 40

\* The breakpoints of the curve, by rising quality.
Breakpoints ==
  << [quality |-> 1, cq |-> 60], [quality |-> 25, cq |-> 50],
     [quality |-> 50, cq |-> 40], [quality |-> 75, cq |-> 30],
     [quality |-> 100, cq |-> 10] >>

\* The distance of n from m is at most half of d.
Nearest(n, m, d) == 2 * (n - m) <= d /\ 2 * (m - n) <= d

\* C17: the cqLevel is the integer nearest to the straight line between the
\* two breakpoints around the quality, it is the breakpoint's value at a
\* breakpoint, and a quality below 1 or above 100 maps as 1 or 100 does.
C17_AvifCqPiecewiseLinear ==
  AvifJob =>
    LET q == IF job.quality < 1 THEN 1 ELSE IF job.quality > 100 THEN 100 ELSE job.quality
        cq == job.options.cqLevel
    IN /\ \A x \in 1..(Len(Breakpoints) - 1) :
            LET lo == Breakpoints[x]
                hi == Breakpoints[x + 1]
                d == hi.quality - lo.quality
            IN (lo.quality <= q /\ q <= hi.quality) =>
                 Nearest(cq * d, lo.cq * d + (hi.cq - lo.cq) * (q - lo.quality), d)
       /\ \A x \in 1..Len(Breakpoints) :
            job.quality = Breakpoints[x].quality => cq = Breakpoints[x].cq
       /\ job.quality < 1 => cq = 60
       /\ job.quality > 100 => cq = 10

\* C17 witness: a quality above 100, read from a saved configuration, was
\* mapped to 10.
C17_Witness ==
  /\ AvifJob
  /\ job.quality > 100
  /\ job.options.cqLevel = 10

\* The encoders whose codec takes the quality as it is.
DirectQualityIds == {"mozjpeg", "webp", "jxl", "wp2"}

\* C18: the quality handed to the squoosh codec of mozjpeg, webp, jxl or wp2
\* is the effective quality when that lies in 1..100, and 1 or 100 when it
\* lies below or above.
C18_DirectQualityClamped ==
  (job # NoJob /\ job.encoderType = "squoosh" /\ job.id \in DirectQualityIds) =>
    job.options.quality =
      (IF job.quality < 1 THEN 1 ELSE IF job.quality > 100 THEN 100 ELSE job.quality)

\* The overrides o with the one for id set to v.
WithOverride(o, id, v) ==
  [x \in (DOMAIN o) \cup {id} |-> IF x = id THEN v ELSE o[x]]

\* C19: the quality of a job is the override of its encoder's id when the
\* configuration has one and the default otherwise, and it stays the same
\* when the override of any other encoder is set or changed.
C19_EffectiveQuality ==
  job # NoJob =>
    /\ job.id \in DOMAIN params.quality.overrides =>
         job.quality = params.quality.overrides[job.id]
    /\ job.id \notin DOMAIN params.quality.overrides =>
         job.quality = params.quality.default
    /\ \A other \in EncoderIds \ {job.id}, v \in OverrideQualities :
         getQualityForEncoder(
           [id |-> job.id],
           [params.quality EXCEPT !.overrides = WithOverride(@, other, v)]) = job.quality

\* C19 witness: the webp job took the default while avif has an override of
\* another value, and the default is not what an override of webp was set to.
C19_Witness ==
  /\ job # NoJob
  /\ job.id = "webp"
  /\ DOMAIN params.quality.overrides = {"avif"}
  /\ params.quality.overrides["avif"] # params.quality.default
  /\ job.quality = params.quality.default

(***************************************************************************)
(* detectSquooshSupport (src/lib/encoders.ts, lines 44-106)                *)
(*                                                                         *)
(* One action per await of the function.  detect.met keeps, for every      *)
(* codec, what its probe of this run met; support is the object the        *)
(* function fills in and returns.                                          *)
(***************************************************************************)

\* The major versions of Node the function can find itself on (line 60).
NodeMajors == {18, 20}

\* The six probes in the order of lines 97-102.
ProbeOrder == << "mozjpeg", "webp", "avif", "oxipng", "jxl", "wp2" >>

\* What one probe can meet (lines 50-56): ingestImage throws, encode rejects,
\* encode resolves with an empty binary, or with a non-empty one.
ProbeOutcomes == {"ingestImage throws", "encode rejects", "empty", "binary"}

\* The object literal of lines 62-69, 77-84 and 88-95.
NoneUsable == [c \in Codecs |-> FALSE]

\* Line 53 as Boolean(encoded): any resolved encode counts.
trySquooshEncodeAnyResult(result) == result \in {"empty", "binary"}

\* trySquooshEncode, lines 44-57: true only for a resolved encode whose
\* binary has a length other than 0.
trySquooshEncode(result) == result = "binary"

InitDetect ==
  /\ support = NoneUsable
  /\ menu = << >>
  /\ ProcIdle
  /\ FsIdle
  /\ JobIdle
  /\ main = NotRun
  /\ \E major \in NodeMajors :
       detect = [at |-> "called", major |-> major, pool |-> "none", next |-> 0,
                 met |-> [c \in Codecs |-> "-"]]

\* Lines 60-74: on Node 20 and later the function returns at once; otherwise
\* it awaits the import of @squoosh/lib.
DetectCalled ==
  /\ detect.at = "called"
  /\ detect' = [detect EXCEPT !.at = IF detect.major >= 20 THEN "returned" ELSE "import"]
  /\ support' = NoneUsable
  /\ UNCHANGED << menu, procVars, fsVars, jobVars, main >>

\* Lines 76-85: the import rejected.
ImportRejected ==
  /\ detect.at = "import"
  /\ detect' = [detect EXCEPT !.at = "returned"]
  /\ support' = NoneUsable
  /\ UNCHANGED << menu, procVars, fsVars, jobVars, main >>

\* Lines 75-97: the import resolved, the pool is constructed and the first
\* probe awaits its encode.
ImportResolved ==
  /\ detect.at = "import"
  /\ detect' = [detect EXCEPT !.at = "encode", !.pool = "open", !.next = 1]
  /\ support' = NoneUsable
  /\ UNCHANGED << menu, procVars, fsVars, jobVars, main >>

\* Line 87: new ImagePoolCtor(1) throws; no try encloses it.
ImagePoolThrows ==
  /\ detect.at = "import"
  /\ detect' = [detect EXCEPT !.at = "thrown"]
  /\ UNCHANGED << support, menu, procVars, fsVars, jobVars, main >>

\* Lines 97-105: the probe of ProbeOrder[next] settled; its result is stored
\* and the next probe starts, or after the last one the pool is closed and
\* support returned.
ProbeSettled ==
  /\ detect.at = "encode"
  /\ \E result \in ProbeOutcomes :
       LET codec == ProbeOrder[detect.next]
           last == detect.next = Len(ProbeOrder)
       IN /\ support' = [support EXCEPT ![codec] = trySquooshEncode(result)]
          /\ detect' = [detect EXCEPT !.met[codec] = result,
                                      !.next = @ + 1,
                                      !.at = IF last THEN "returned" ELSE "encode",
                                      !.pool = IF last THEN "closed" ELSE "open"]
  /\ UNCHANGED << menu, procVars, fsVars, jobVars, main >>

\* Lines 102-104: the last probe settled and pool.close() throws; no try
\* encloses it.
CloseThrows ==
  /\ detect.at = "encode"
  /\ detect.next = Len(ProbeOrder)
  /\ \E result \in ProbeOutcomes :
       LET codec == ProbeOrder[detect.next]
       IN /\ support' = [support EXCEPT ![codec] = trySquooshEncode(result)]
          /\ detect' = [detect EXCEPT !.met[codec] = result,
                                      !.next = @ + 1,
                                      !.at = "thrown"]
  /\ UNCHANGED << menu, procVars, fsVars, jobVars, main >>

NextDetect ==
  \/ DetectCalled
  \/ ImportRejected
  \/ ImportResolved
  \/ ImagePoolThrows
  \/ ProbeSettled
  \/ CloseThrows

SpecDetect == InitDetect /\ [][NextDetect]_vars

\* C21: no exception escapes detectSquooshSupport: whatever step fails, the
\* call returns a capability set, and when the provider does not load it
\* returns all six codecs false without probing any.
C21_NoExceptionEscapes ==
  /\ detect.at # "thrown"
  /\ (detect.at = "returned" /\ detect.pool = "none") =>
       /\ support = NoneUsable
       /\ \A c \in Codecs : detect.met[c] = "-"

\* C22: a codec is reported usable exactly when its own encode of this run
\* resolved with a non-empty binary; once the pool exists the codecs are
\* probed one by one in the order of lines 97-102 whatever the earlier probes
\* met, and a capability set returned after probing has all six probed.
C22_UsableOnlyIfEncoded ==
  /\ \A c \in Codecs : support[c] <=> detect.met[c] = "binary"
  /\ \A k \in 1..Len(ProbeOrder) :
       detect.met[ProbeOrder[k]] # "-" <=> (detect.pool # "none" /\ k < detect.next)
  /\ (detect.at = "returned" /\ detect.pool # "none") =>
       \A c \in Codecs : detect.met[c] # "-"

\* C22 witness: the set is returned with webp usable although the probe of
\* mozjpeg before it was rejected and the one of avif after it came back
\* empty.
C22_Witness ==
  /\ detect.at = "returned"
  /\ detect.met["mozjpeg"] = "encode rejects"
  /\ detect.met["webp"] = "binary"
  /\ detect.met["avif"] = "empty"
  /\ support["webp"]
  /\ ~support["mozjpeg"]
  /\ ~support["avif"]

(***************************************************************************)
(* main (part_000, lines 198-332) up to its call of processImages, and the *)
(* concurrency processImages takes from it (part_001, lines 38-41,         *)
(* 112-114 and 144)                                                        *)
(*                                                                         *)
(* One action per await of main.  The menu, the ids selected and the       *)
(* quality values are left out: main.selection and main.quality only keep  *)
(* where the two came from.  A number that may be missing (args.concurrency,*)
(* the exit code, the limit, the size of the pool) is a sequence of at most *)
(* one number, << >> when it is missing.                                   *)
(***************************************************************************)

\* Bound: the core counts os.cpus() reports are 0..MaxCores.
MaxCores == 10

\* What args.inputPath names (lines 201-218, 228-233).
InputKinds ==
  {"none", "inaccessible", "unsupported file", "supported file",
   "empty directory", "directory"}

\* What the file at configPath holds (lines 78-85, 249-257): it cannot be
\* read, is not JSON, is the JSON null, or is an object that lacks
\* selectedIds, has a selectedIds that is not an array, lacks quality, or
\* has both.
SavedRecords ==
  {"unreadable", "unparsable", "null", "no selectedIds", "selectedIds not a list",
   "no quality", "valid"}

\* Line 39 of part_001 without the || 2 and line 40 without the Math.max.
defaultConcurrencyUnclamped(cores) == MathMin(8, cores - 1)

\* defaultConcurrency, part_001 lines 38-41; cores is os.cpus().length.
defaultConcurrency(cores) ==
  LET n == IF cores = 0 THEN 2 ELSE cores
  IN MathMin(8, MathMax(2, n - 1))

\* loadSavedConfig, lines 78-85: null when readFile rejects or JSON.parse
\* throws, else whatever was parsed.
loadSavedConfig(saved) ==
  IF saved \in {"unreadable", "unparsable", "null"} THEN "null" ELSE saved

InitMain ==
  /\ support = NoneUsable
  /\ menu = << >>
  /\ ProcIdle
  /\ FsIdle
  /\ JobIdle
  /\ detect = NotRun
  /\ \E input \in InputKinds, yes \in BOOLEAN, saved \in SavedRecords,
        concurrency \in {<< >>} \cup {<< c >> : c \in 0..MaxConcurrency},
        cores \in 0..MaxCores :
       main = [at |-> "called", input |-> input, yes |-> yes, saved |-> saved,
               concurrency |-> concurrency, cores |-> cores,
               exitCode |-> << >>, message |-> "-", thrownAt |-> "-",
               detected |-> FALSE, selection |-> "-", quality |-> "-",
               limit |-> << >>, poolSize |-> << >>]

\* process.exit(code) after the message was printed.
Exit(code, message) ==
  [main EXCEPT !.at = "exited", !.exitCode = << code >>, !.message = message]

\* main().catch, lines 328-332.
Fatal(thrownAt) ==
  [Exit(1, "Fatal error") EXCEPT !.thrownAt = thrownAt]

MainSteps(next) ==
  /\ main' = next
  /\ UNCHANGED << support, menu, procVars, fsVars, jobVars, detect >>

\* Lines 199-208.
MainCalled ==
  /\ main.at = "called"
  /\ MainSteps(IF main.input = "none" THEN Exit(1, "usage")
               ELSE [main EXCEPT !.at = "isFile"])

\* Lines 207-226: isFile and isDirectory resolved (neither rejects).
StatResolved ==
  /\ main.at = "isFile"
  /\ MainSteps(
       IF main.input = "inaccessible"
       THEN Exit(1, "Input path does not exist or is not accessible.")
       ELSE IF main.input = "unsupported file"
       THEN Exit(0, "No supported input images found.")
       ELSE [main EXCEPT !.at = "ensureDir"])

\* Line 228 without the check of lines 230-233.
ScanResolvedUnchecked ==
  /\ main.at = "collectImagesRecursive"
  /\ MainSteps([main EXCEPT !.at = "detectSquooshSupport", !.detected = TRUE])

\* Lines 226-235: outputRoot exists; a single file is the only input, a
\* directory is scanned.
OutputRootEnsured ==
  /\ main.at = "ensureDir"
  /\ MainSteps(
       IF main.input = "supported file"
       THEN [main EXCEPT !.at = "detectSquooshSupport", !.detected = TRUE]
       ELSE [main EXCEPT !.at = "collectImagesRecursive"])

\* Lines 228-235: the scan resolved.
ScanResolved ==
  /\ main.at = "collectImagesRecursive"
  /\ MainSteps(
       IF main.input = "empty directory"
       THEN Exit(0, "No supported input images found.")
       ELSE [main EXCEPT !.at = "detectSquooshSupport", !.detected = TRUE])

\* Lines 235-247.
DetectResolved ==
  /\ main.at = "detectSquooshSupport"
  /\ MainSteps([main EXCEPT !.at = "loadSavedConfig"])

\* Lines 247-271: loadSavedConfig resolved.  With --yes and a record,
\* savedConfig.selectedIds.filter throws when selectedIds is no array, and
\* quality is the record's quality.
ConfigLoaded ==
  /\ main.at = "loadSavedConfig"
  /\ LET savedConfig == loadSavedConfig(main.saved)
         used == main.yes /\ savedConfig # "null"
     IN MainSteps(
          IF used /\ savedConfig \in {"no selectedIds", "selectedIds not a list"}
          THEN Fatal("savedConfig.selectedIds.filter")
          ELSE IF ~used
          THEN [main EXCEPT !.at = "promptForSelection"]
          ELSE IF savedConfig = "no quality"
          THEN [main EXCEPT !.at = "promptForQuality", !.selection = "saved"]
          ELSE [main EXCEPT !.at = "saveConfig", !.selection = "saved",
                            !.quality = "saved"])

\* Lines 263-271.
SelectionPrompted ==
  /\ main.at = "promptForSelection"
  /\ MainSteps([main EXCEPT !.at = "promptForQuality", !.selection = "prompt"])

\* Lines 269-278.
QualityPrompted ==
  /\ main.at = "promptForQuality"
  /\ MainSteps([main EXCEPT !.at = "saveConfig", !.quality = "prompt"])

\* Lines 278-296 of main and 112-114, 143-144 of processImages: the
\* concurrency is resolved and handed to pLimit, which throws for a value
\* below 1, and to the ImagePool when a squoosh encoder is active.
ConfigSaved ==
  /\ main.at = "saveConfig"
  /\ LET concurrency == IF main.concurrency # << >> THEN main.concurrency[1]
                        ELSE defaultConcurrency(main.cores)
     IN IF concurrency < 1
        THEN MainSteps([Fatal("pLimit") EXCEPT !.limit = << concurrency >>])
        ELSE \E needsSquoosh \in BOOLEAN :
               MainSteps([main EXCEPT !.at = "processImages",
                                      !.limit = << concurrency >>,
                                      !.poolSize = IF needsSquoosh THEN << concurrency >>
                                                   ELSE << >>])

\* Lines 288-326: the summary is printed and main returns.
ProcessImagesResolved ==
  /\ main.at = "processImages"
  /\ MainSteps(Exit(0, "Done."))

\* An awaited call other than isFile, isDirectory and loadSavedConfig
\* rejects and main().catch ends the process (lines 328-332).
AwaitRejected ==
  /\ main.at \in {"ensureDir", "collectImagesRecursive", "detectSquooshSupport",
                  "promptForSelection", "promptForQuality", "saveConfig",
                  "processImages"}
  /\ MainSteps(Fatal(main.at))

NextMain ==
  \/ MainCalled
  \/ StatResolved
  \/ OutputRootEnsured
  \/ ScanResolved
  \/ DetectResolved
  \/ ConfigLoaded
  \/ SelectionPrompted
  \/ QualityPrompted
  \/ ConfigSaved
  \/ ProcessImagesResolved
  \/ AwaitRejected

SpecMain == InitMain /\ [][NextMain]_vars

\* The inputs with which main finds nothing to process (lines 210-218,
\* 230-233).
NoInput == {"inaccessible", "unsupported file", "empty directory"}

\* C23 as claimed: with an invalid input path or no supported input image
\* the run stops before capability detection and before any job, and the
\* process exits with a status other than 0.
C23_NoInputExitsNonZero ==
  main.input \in NoInput =>
    /\ ~main.detected
    /\ main.limit = << >>
    /\ main.at = "exited" => main.exitCode # << 0 >>

\* C23 amended: with an invalid input path or no supported input image the
\* run stops before capability detection and before any job; the process
\* exits with status 1 when the path is invalid and with status 0, after the
\* warning, when no supported input image was found.
C23_NoInputStopsBeforeDetection ==
  /\ main.input \in NoInput =>
       /\ ~main.detected
       /\ main.limit = << >>
       /\ main.at \in {"called", "isFile", "ensureDir", "collectImagesRecursive", "exited"}
  /\ (main.input = "inaccessible" /\ main.at = "exited") =>
       /\ main.message = "Input path does not exist or is not accessible."
       /\ main.exitCode = << 1 >>
  /\ (main.input = "unsupported file" /\ main.at = "exited") =>
       /\ main.message = "No supported input images found."
       /\ main.exitCode = << 0 >>
  /\ (main.input = "empty directory" /\ main.at = "exited" /\ main.thrownAt = "-") =>
       /\ main.message = "No supported input images found."
       /\ main.exitCode = << 0 >>

\* C23 witness: the scan of a directory returned no file and the process
\* exited with status 0 before detection.
C23_Witness ==
  /\ main.input = "empty directory"
  /\ main.at = "exited"
  /\ main.message = "No supported input images found."
  /\ main.exitCode = << 0 >>
  /\ ~main.detected

\* C24: a saved record that is unreadable, unparsable or lacks a list of
\* selectedIds or a quality is treated as absent (selection and quality are
\* prompted) and never ends the run with an error.
C24_SavedRecordDegrades ==
  main.saved # "valid" =>
    /\ main.thrownAt # "savedConfig.selectedIds.filter"
    /\ main.selection # "saved"
    /\ main.quality # "saved"

\* C25: without a given concurrency the limit handed to pLimit is
\* min(8, max(2, cores - 1)), which lies in 2..8 for every core count; a
\* given concurrency is the limit itself; a codec pool that is constructed
\* has the size of the limit.
C25_ConcurrencyLimit ==
  main.limit # << >> =>
    /\ main.concurrency = << >> =>
         /\ main.limit = << MathMin(8, MathMax(2, main.cores - 1)) >>
         /\ main.limit[1] \in 2..8
    /\ main.concurrency # << >> => main.limit = main.concurrency
    /\ main.poolSize \in {<< >>, main.limit}

\* C25 witness: no concurrency was given, os.cpus() reported no core, and
\* processImages runs with a limit and a codec pool of 2.
C25_Witness ==
  /\ main.at = "processImages"
  /\ main.concurrency = << >>
  /\ main.cores = 0
  /\ main.limit = << 2 >>
  /\ main.poolSize = << 2 >>

(***************************************************************************)
(* processImages again: the input buffer, the order of the jobs of one     *)
(* file, and termination under fair scheduling                             *)
(***************************************************************************)

\* C26: the input file of one callback is read into memory at most once: a
\* read is awaited only while there is no buffer, the buffer comes only from
\* a read that resolved, and once there it stays for every later job of the
\* file, whether the earlier squoosh jobs succeeded or failed.
C26_ReadAtMostOnce ==
  [][\A i \in DOMAIN task :
       /\ task'[i].at = "readFile" => ~task'[i].inputBuffer
       /\ (~task[i].inputBuffer /\ task'[i].inputBuffer) => task[i].at = "readFile"
       /\ (task[i].inputBuffer /\ task'[i].st = "running") =>
            /\ task'[i].inputBuffer
            /\ task'[i].at # "readFile"]_vars

\* C26 witness: the first squoosh job of a file read the file and failed in
\* its encode; the second squoosh job is encoding from the same buffer.
C26_Witness ==
  \E i \in DOMAIN task :
    /\ Len(activeEncoders) >= 2
    /\ activeEncoders[1].encoderType = "squoosh"
    /\ activeEncoders[2].encoderType = "squoosh"
    /\ outcome[<< i, activeEncoders[1].id >>] = "Encoding failed"
    /\ task[i].k = 2
    /\ task[i].at = "encode"
    /\ task[i].inputBuffer

\* The index of the job callback i is at: 0 before it starts, past the last
\* encoder once it has returned.
Position(i) ==
  IF task[i].st = "running" THEN task[i].k
  ELSE IF task[i].st = "done" THEN Len(activeEncoders) + 1
  ELSE 0

\* C27: the jobs of one file run one after another in the catalog order of
\* the active encoders: the jobs before the callback's position were each
\* attempted once and have succeeded or have their failure recorded, the job
\* at its position is the only one in flight, and no later job has started.
C27_JobsOfAFileInOrder ==
  /\ \A i \in DOMAIN task : \A k \in 1..Len(activeEncoders) :
       LET j == << i, activeEncoders[k].id >>
       IN /\ k < Position(i) =>
               /\ attempts[j] = 1
               /\ Succeeded(i, activeEncoders[k]) \/
                    (Failed(i, activeEncoders[k])
                       /\ FailureEntries(i, activeEncoders[k]) # {})
          /\ k = Position(i) => attempts[j] = 1 /\ outcome[j] = "-"
          /\ k > Position(i) => attempts[j] = 0 /\ outcome[j] = "-"
  /\ \A k1, k2 \in 1..Len(activeEncoders) :
       k1 < k2 =>
         \E m1, m2 \in 1..Len(menu) :
           /\ m1 < m2
           /\ menu[m1] = activeEncoders[k1]
           /\ menu[m2] = activeEncoders[k2]

\* C27 witness: two files are in flight at once, the first at its second
\* job after its first job failed, the second at its first job.
C27_Witness ==
  /\ N >= 2
  /\ Len(activeEncoders) >= 2
  /\ task[1].st = "running"
  /\ task[1].k = 2
  /\ Failed(1, activeEncoders[1])
  /\ task[2].st = "running"
  /\ task[2].k = 1

\* processImages where every awaited call resolves or rejects in the end and
\* p-limit starts a queued callback when a slot is free: a step that can be
\* taken is taken.
SpecFair == Init /\ [][Next]_vars /\ WF_vars(Next)

\* C28: processImages in the end returns a summary with totalInputs = N, with
\* every job of every file and active encoder attempted and ended, whatever
\* the limit and whichever jobs fail.
C28_Completes ==
  <>(/\ phase = "returned"
     /\ summary # NoSummary
     /\ summary.totalInputs = N
     /\ \A i \in 1..N : \A enc \in ActiveSet :
          /\ attempts[<< i, enc.id >>] = 1
          /\ Failed(i, enc) \/ Succeeded(i, enc))

\* C28 witness: under limit 1 three files were processed and the call
\* returned although the first job of the first file failed.
C28_Witness ==
  /\ phase = "returned"
  /\ params.concurrency = 1
  /\ N = 3
  /\ Len(activeEncoders) >= 1
  /\ Failed(1, activeEncoders[1])
  /\ completed = 3

(***************************************************************************)
(* The atomic writes again: where the temporary file lies, and two calls   *)
(* for one destination                                                     *)
(***************************************************************************)

SameTarget(w1, w2) == w1 # w2 /\ Target(w1) = Target(w2)

\* C30: two calls for one destination have different temporary paths and a
\* temporary file holds only bytes of its own call; when both have resolved
\* the destination holds the complete output of one of them; a call resolves
\* only in the step of its own rename, which puts its complete output at the
\* destination, and a destination changes in no other step, so that it holds
\* the output of the call whose rename was last.
C30_SameDestination ==
  /\ [](\A w1, w2 \in Writers :
          /\ (writer[w1].at \in {"write", "rename"} /\ disk[writer[w1].tempPath].exists) =>
               disk[writer[w1].tempPath].by = w1
          /\ SameTarget(w1, w2) =>
               /\ ({writer[w1].at, writer[w2].at} \subseteq {"write", "rename", "resolved"}) =>
                    writer[w1].tempPath # writer[w2].tempPath
               /\ (writer[w1].at = "resolved" /\ writer[w2].at = "resolved") =>
                    disk[Target(w1)] \in {File(w1, ContentLen), File(w2, ContentLen)})
  /\ [][/\ \A w \in Writers :
            (writer[w].at # "resolved" /\ writer'[w].at = "resolved") =>
              /\ writer[w].at = "rename"
              /\ disk'[Target(w)] = File(w, ContentLen)
        /\ \A t \in Targets :
            disk'[t] # disk[t] =>
              \E w \in Writers :
                /\ Target(w) = t
                /\ writer[w].at = "rename"
                /\ writer'[w].at = "resolved"]_vars

\* C30 witness: both calls for one destination have resolved, both temporary
\* paths are gone, and the destination holds the whole output of call 1.
C30_Witness ==
  /\ SameTarget(1, 2)
  /\ writer[1].at = "resolved"
  /\ writer[2].at = "resolved"
  /\ writer[1].tempPath # writer[2].tempPath
  /\ ~disk[writer[1].tempPath].exists
  /\ ~disk[writer[2].tempPath].exists
  /\ disk[Target(2)] = File(1, ContentLen)

====
